---- MODULE Spec2Model ----
(***************************************************************************)
(* Datenschutz security scanner (VS Code extension and web UI).            *)
(*                                                                         *)
(* The module holds several specifications over one set of variables:      *)
(*   FixSpec     FixProvider.applyFix and its helpers (diagnostics.ts)     *)
(*   ChunkSpec   SecurityScanner.chunkByLines on arbitrary (N, M, O)       *)
(*   Spec        SecurityScanner.scanFile: numbering, chunking, the rule   *)
(*               engine and the model pass (scanner.ts)                    *)
(*   SummarySpec generateSummary / renderResults severity fold             *)
(*   WorkspaceSpec SecurityScanner.scanWorkspace: discovery, the loop over  *)
(*               the files with its cancellation check, scanFile per file   *)
(*   DiagSpec    DiagnosticProvider.createDiagnostics / updateDiagnostics   *)
(*   UndoSpec    FixProvider.undoLastFix over a backup directory            *)
(* A specification leaves the variables of the other parts unchanged.      *)
(*                                                                         *)
(* Strings are sequences of one-character strings.                         *)
(***************************************************************************)
EXTENDS Integers, Sequences, FiniteSets, TLC

VARIABLES
    \* ---- fix applier (diagnostics.ts, FixProvider) ----
    files,       \* path -> [exists, content]: the files applyFix reads and writes
    backups,     \* <<basename, timestamp>> -> content: .datenschutz_backups/
    fixLogs,     \* timestamp -> log entry: fix_logs/fix_<Date.now()>.json
    now,         \* the millisecond clock read by new Date() / Date.now()
    pc,          \* per invocation of applyFix: where it stands
    cur,         \* per invocation: the issue and the locals of applyFix
    result,      \* per invocation: the FixResult it returned
    nfix,        \* number of applyFix invocations started so far
    \* ---- scanner (scanner.ts, SecurityScanner.scanFile) ----
    cfg,         \* the workspace configuration read by scanFile
    src,         \* the file scanFile is given: [path, exists, text]
    spc,         \* where scanFile stands
    lines,       \* chunkByLines: the numbered lines
    maxLines,    \* chunkByLines: its maxLines argument
    overlapLines,\* chunkByLines: its overlapLines argument
    start,       \* chunkByLines: the loop variable
    chunks,      \* chunkByLines: the chunks pushed so far
    ci,          \* scanFile: index of the chunk under analysis
    allIssues,   \* scanFile: the running issue list
    lastCall,    \* the latest model call: its outcome and what analyzeWithLLM returned
    inflight,    \* number of generate() calls of the scan that have not settled
    \* ---- summary (extension.ts generateSummary, app.js renderResults) ----
    results,     \* the issue list handed to the summary
    summary,     \* [done, total, bySeverity]
    \* ---- workspace scan (scanner.ts, SecurityScanner.scanWorkspace) ----
    workspace,   \* the directory tree at workspacePath
    wpc,         \* where scanWorkspace stands
    wfiles,      \* scanWorkspace: files, the result of getScannableFiles
    wi,          \* scanWorkspace: the loop index i (0-based)
    wIssues,     \* scanWorkspace: its allIssues
    cancelled,   \* token.isCancellationRequested
    \* ---- diagnostics (diagnostics.ts, DiagnosticProvider) ----
    scanResults, \* the issue list a scan command hands to createDiagnostics
    diagnosticCollection, \* the provider's collection: file -> diagnostics
    diagnostics, \* the object createDiagnostics returned to the command
    dpc,         \* where the scan command stands after the scan
    \* ---- undo (diagnostics.ts, FixProvider.undoLastFix) ----
    undo,        \* the latest undoLastFix call and its FixResult
    \* ---- model call (modelProvider.ts, ModelProvider.generate) ----
    gen,         \* one generate call: its promise, its process and its timer
    \* ---- web UI (analyzer/backend/static/app.js) ----
    web,         \* isScanning, the scan button, requests and timers of the page
    \* ---- scan commands (extension.ts) ----
    cmd          \* one Scan Current File command and what the user was shown

fixVars == <<files, backups, fixLogs, now, pc, cur, result, nfix>>
chunkVars == <<lines, maxLines, overlapLines, start, chunks>>
scanVars == <<cfg, src, spc, lines, maxLines, overlapLines, start, chunks, ci, allIssues,
             lastCall, inflight>>
sumVars == <<results, summary>>
wsVars == <<workspace, wpc, wfiles, wi, wIssues, cancelled>>
diagVars == <<scanResults, diagnosticCollection, diagnostics, dpc>>
undoVars == <<undo>>
uiVars == <<gen, web, cmd>>
vars == <<files, backups, fixLogs, now, pc, cur, result, nfix,
          cfg, src, spc, lines, maxLines, overlapLines, start, chunks, ci,
          allIssues, lastCall, inflight, results, summary,
          workspace, wpc, wfiles, wi, wIssues, cancelled,
          scanResults, diagnosticCollection, diagnostics, dpc, undo,
          gen, web, cmd>>

----------------------------------------------------------------------------
(* Bounds *)

\* longest initial file content, in characters
MaxLen == 2
\* number of applyFix invocations in one behaviour
MaxFixes == 2
\* the clock stops advancing here
MaxTime == 1
\* chunkByLines on arbitrary arguments: longest file, largest maxLines
MaxN == 9
MaxM == 4
\* iterations of a chunking loop that does not advance that are followed
\* beyond the number of lines of the file
MaxSpin == 2
\* lines of the long file given to scanFile
LongFile == 43
\* longest issue list handed to the summary and to the diagnostics
MaxIssues == 3
\* 'data' events of stdout, and of stderr, in one model call
MaxData == 3
\* apply-fix requests and refresh timers of the page that are pending at once
MaxPending == 2

----------------------------------------------------------------------------
(* Strings *)

Min(a, b) == IF a < b THEN a ELSE b
Max(a, b) == IF a > b THEN a ELSE b

StrUpTo(S, n) == UNION {[1..k -> S] : k \in 0..n}

\* s.substring(from, to), 0-based, to exclusive
Substring(s, from, to) == SubSeq(s, from + 1, to)

\* the 0-based offsets at which t occurs in s
Occurrences(s, t) ==
    {i \in 0..(Len(s) - Len(t)) : Substring(s, i, i + Len(t)) = t}

\* String.prototype.includes
Includes(s, t) == Occurrences(s, t) # {}

\* String.prototype.indexOf, for a t that occurs in s
IndexOf(s, t) == CHOOSE i \in Occurrences(s, t) : \A j \in Occurrences(s, t) : i <= j

\* ECMAScript GetSubstitution for a string pattern (no captures): in the
\* replacement text "$$" stands for "$", "$&" for the matched text, "$`" for
\* the text before the match and "$'" for the text after it; any other "$"
\* is literal.
RECURSIVE SubstFrom(_, _, _, _, _)
SubstFrom(r, i, matched, pre, post) ==
    IF i > Len(r) THEN <<>>
    ELSE IF r[i] = "$" /\ i < Len(r) /\ r[i + 1] \in {"$", "&", "`", "'"}
         THEN (CASE r[i + 1] = "$" -> <<"$">>
                 [] r[i + 1] = "&" -> matched
                 [] r[i + 1] = "`" -> pre
                 [] r[i + 1] = "'" -> post)
              \o SubstFrom(r, i + 2, matched, pre, post)
         ELSE <<r[i]>> \o SubstFrom(r, i + 1, matched, pre, post)

GetSubstitution(matched, str, position, replacement) ==
    SubstFrom(replacement, 1, matched,
              Substring(str, 0, position),
              Substring(str, position + Len(matched), Len(str)))

\* String.prototype.replace(searchString, replaceString): the first
\* occurrence only, the replacement text expanded by GetSubstitution
StringReplace(s, search, replacement) ==
    IF ~Includes(s, search) THEN s
    ELSE LET pos == IndexOf(s, search)
         IN Substring(s, 0, pos)
            \o GetSubstitution(search, s, pos, replacement)
            \o Substring(s, pos + Len(search), Len(s))

----------------------------------------------------------------------------
(* The parts a specification does not exercise stay as constructed *)

NoSummary == [done |-> FALSE, total |-> 0, bySeverity |-> <<>>]
NoCall == [made |-> FALSE, chunk |-> 0, outcome |-> "none", form |-> "none",
           items |-> <<>>, returned |-> <<>>]

ScanIdle ==
    /\ cfg = [chunkMaxLines |-> 400, modelAvailable |-> FALSE]
    /\ src = [path |-> "", exists |-> FALSE, text |-> <<>>]
    /\ spc = "idle"
    /\ lines = <<>>
    /\ maxLines = 0
    /\ overlapLines = 0
    /\ start = 0
    /\ chunks = <<>>
    /\ ci = 0
    /\ allIssues = <<>>
    /\ lastCall = NoCall
    /\ inflight = 0

SumIdle ==
    /\ results = <<>>
    /\ summary = NoSummary

\* no scanWorkspace under way
NoWorkspace == [readable |-> FALSE, entries |-> <<>>]
WsIdle ==
    /\ workspace = NoWorkspace
    /\ wpc = "idle"
    /\ wfiles = <<>>
    /\ wi = 0
    /\ wIssues = <<>>
    /\ cancelled = FALSE

\* a fresh DiagnosticProvider: createDiagnosticCollection('datenschutz')
NoCollection == "none"
DiagIdle ==
    /\ scanResults = <<>>
    /\ diagnosticCollection = <<>>
    /\ diagnostics = NoCollection
    /\ dpc = "idle"

\* no undoLastFix called yet
NoUndo == [done |-> FALSE, path |-> "", success |-> FALSE, reason |-> ""]
UndoIdle == undo = NoUndo

\* no generate call, an untouched page, no scan command
NoGen == [state |-> "idle", outcome |-> "none", value |-> 0, first |-> "none",
          spawned |-> FALSE, output |-> 0, errorOutput |-> 0, closed |-> FALSE,
          errored |-> FALSE,
          timerFired |-> FALSE, killed |-> FALSE]
NoWeb == [isScanning |-> FALSE, scanBtnDisabled |-> FALSE, pathEmpty |-> TRUE,
          hasIssues |-> FALSE, requests |-> 0, timers |-> 0, fixing |-> 0,
          status |-> "Ready", ignored |-> FALSE]
NoCmd == [pc |-> "idle", inTry |-> FALSE, errorShown |-> FALSE,
          summaryShown |-> FALSE, unhandled |-> FALSE]
UiIdle == gen = NoGen /\ web = NoWeb /\ cmd = NoCmd

----------------------------------------------------------------------------
(* Fix applier: FixProvider.applyFix, createBackup, logFix *)

Procs == {1, 2}

\* paths an issue may name: a file of the workspace, a path that does not
\* exist, and the empty (falsy) path
TargetFile == "app.py"
Paths == {TargetFile, "gone.py", ""}

FileChars == {"a", "b"}
InitContents == StrUpTo(FileChars, MaxLen)
\* fix.before and fix.after as the analysis produced them
Befores == {<<>>, <<"a">>, <<"a", "b">>}
Afters == {<<>>, <<"b">>, <<"$", "$">>, <<"$", "&">>}

NoFix == [present |-> FALSE, before |-> <<>>, after |-> <<>>]
Fixes == {NoFix} \cup {[present |-> TRUE, before |-> b, after |-> a] : b \in Befores, a \in Afters}
FixIssues == [file_path : Paths, fix : Fixes]

ReasonNoFix == "No fix available for this issue"
ReasonNoPath == "No file path specified"
ReasonNotFound == "File not found"
ReasonNotApplicable == "The code to be fixed was not found in the file. The file may have been modified."
ReasonError == "Error applying fix"
NoReason == ""

Failure(reason) == [success |-> FALSE, reason |-> reason]
Success == [success |-> TRUE, reason |-> NoReason]
NoResult == [success |-> FALSE, reason |-> NoReason]

IdleCur == [issue |-> [file_path |-> "", fix |-> NoFix], content |-> <<>>,
            newContent |-> <<>>, backupFailed |-> FALSE, logFailed |-> FALSE,
            ioError |-> FALSE]

FixStart ==
    /\ \E c \in InitContents :
         files = [p \in Paths |-> [exists |-> (p = TargetFile),
                                   content |-> IF p = TargetFile THEN c ELSE <<>>]]
    /\ backups = <<>>
    /\ fixLogs = <<>>
    /\ now = 0
    /\ pc = [p \in Procs |-> "idle"]
    /\ cur = [p \in Procs |-> IdleCur]
    /\ result = [p \in Procs |-> NoResult]
    /\ nfix = 0

\* fs.writeFileSync(path, data): creates or overwrites
WriteEntry(dir, key, data) ==
    [k \in (DOMAIN dir) \cup {key} |-> IF k = key THEN data ELSE dir[k]]

\* applyFix without its includes check: every fix is taken as applicable
FixNotApplicableUnchecked(content, before) == FALSE

\* content.includes(fix.before) is false
FixNotApplicable(content, before) == ~Includes(content, before)

\* createBackup: `${basename}.${timestamp}.bak` under .datenschutz_backups;
\* any error of mkdirSync / writeFileSync is caught and only warned about
CreateBackup(filePath, content, ioOk) ==
    IF ioOk THEN WriteEntry(backups, <<filePath, now>>, content) ELSE backups

\* logFix: fix_<Date.now()>.json under fix_logs; errors caught and warned
LogFix(issue, ioOk) ==
    IF ioOk THEN WriteEntry(fixLogs, now, issue) ELSE fixLogs

\* an applyFix that waits while another invocation is between its read and
\* its return
ExclusiveFileLock(p) == \A q \in Procs \ {p} : pc[q] \in {"idle", "done"}

\* what applyFix waits for before it reads the file: nothing, it takes no
\* lock and checks for no other invocation
NoFileLock(p) == TRUE

\* applyFix up to its first await: the guards, readFileSync, the includes
\* check, content.replace and the body of createBackup
ApplyFixBegin(p) ==
    /\ pc[p] = "idle"
    /\ nfix < MaxFixes
    /\ NoFileLock(p)
    /\ nfix' = nfix + 1
    /\ \E issue \in FixIssues, readOk \in BOOLEAN, backupOk \in BOOLEAN :
         LET fix == issue.fix
             filePath == issue.file_path
             content == files[filePath].content
             newContent == StringReplace(content, fix.before, fix.after)
             started == [IdleCur EXCEPT !.issue = issue]
         IN IF ~fix.present THEN
                /\ result' = [result EXCEPT ![p] = Failure(ReasonNoFix)]
                /\ pc' = [pc EXCEPT ![p] = "done"]
                /\ cur' = [cur EXCEPT ![p] = started]
                /\ UNCHANGED <<files, backups, fixLogs>>
            ELSE IF filePath = "" THEN
                /\ result' = [result EXCEPT ![p] = Failure(ReasonNoPath)]
                /\ pc' = [pc EXCEPT ![p] = "done"]
                /\ cur' = [cur EXCEPT ![p] = started]
                /\ UNCHANGED <<files, backups, fixLogs>>
            ELSE IF ~files[filePath].exists THEN
                /\ result' = [result EXCEPT ![p] = Failure(ReasonNotFound)]
                /\ pc' = [pc EXCEPT ![p] = "done"]
                /\ cur' = [cur EXCEPT ![p] = started]
                /\ UNCHANGED <<files, backups, fixLogs>>
            ELSE IF ~readOk THEN
                /\ result' = [result EXCEPT ![p] = Failure(ReasonError)]
                /\ pc' = [pc EXCEPT ![p] = "done"]
                /\ cur' = [cur EXCEPT ![p] = [started EXCEPT !.ioError = TRUE]]
                /\ UNCHANGED <<files, backups, fixLogs>>
            ELSE IF FixNotApplicable(content, fix.before) THEN
                /\ result' = [result EXCEPT ![p] = Failure(ReasonNotApplicable)]
                /\ pc' = [pc EXCEPT ![p] = "done"]
                /\ cur' = [cur EXCEPT ![p] = [started EXCEPT !.content = content]]
                /\ UNCHANGED <<files, backups, fixLogs>>
            ELSE
                /\ backups' = CreateBackup(filePath, content, backupOk)
                /\ cur' = [cur EXCEPT ![p] = [started EXCEPT
                             !.content = content, !.newContent = newContent,
                             !.backupFailed = ~backupOk, !.ioError = ~backupOk]]
                /\ pc' = [pc EXCEPT ![p] = "backedUp"]
                /\ UNCHANGED <<files, fixLogs, result>>
    /\ UNCHANGED <<now, scanVars, sumVars, wsVars, diagVars, undoVars, uiVars>>

\* after `await this.createBackup`: writeFileSync of the new content, then
\* the body of logFix, up to `await this.logFix`
ApplyFixWrite(p) ==
    /\ pc[p] = "backedUp"
    /\ \E writeOk \in BOOLEAN, logOk \in BOOLEAN :
         LET filePath == cur[p].issue.file_path
         IN IF ~writeOk THEN
                /\ result' = [result EXCEPT ![p] = Failure(ReasonError)]
                /\ pc' = [pc EXCEPT ![p] = "done"]
                /\ cur' = [cur EXCEPT ![p].ioError = TRUE]
                /\ UNCHANGED <<files, fixLogs>>
            ELSE
                /\ files' = [files EXCEPT ![filePath] =
                               [exists |-> TRUE, content |-> cur[p].newContent]]
                /\ fixLogs' = LogFix(cur[p].issue, logOk)
                /\ cur' = [cur EXCEPT ![p].logFailed = ~logOk,
                                      ![p].ioError = cur[p].ioError \/ ~logOk]
                /\ pc' = [pc EXCEPT ![p] = "logged"]
                /\ UNCHANGED result
    /\ UNCHANGED <<backups, now, nfix, scanVars, sumVars, wsVars, diagVars, undoVars, uiVars>>

\* after `await this.logFix`: generatePatch and the success result
ApplyFixFinish(p) ==
    /\ pc[p] = "logged"
    /\ result' = [result EXCEPT ![p] = Success]
    /\ pc' = [pc EXCEPT ![p] = "done"]
    /\ UNCHANGED <<files, backups, fixLogs, now, cur, nfix, scanVars, sumVars, wsVars, diagVars, undoVars, uiVars>>

\* the caller has the result; the next applyFix may start
\* (applyMultipleFixes, or the next Apply Fix command)
ApplyFixReturn(p) ==
    /\ pc[p] = "done"
    /\ nfix < MaxFixes
    /\ pc' = [pc EXCEPT ![p] = "idle"]
    /\ cur' = [cur EXCEPT ![p] = IdleCur]
    /\ result' = [result EXCEPT ![p] = NoResult]
    /\ UNCHANGED <<files, backups, fixLogs, now, nfix, scanVars, sumVars, wsVars, diagVars, undoVars, uiVars>>

\* a millisecond passes
Tick ==
    /\ now < MaxTime
    /\ now' = now + 1
    /\ UNCHANGED <<files, backups, fixLogs, pc, cur, result, nfix, scanVars, sumVars, wsVars, diagVars, undoVars, uiVars>>

FixNext ==
    \/ ApplyFixBegin(1)
    \/ ApplyFixWrite(1)
    \/ ApplyFixFinish(1)
    \/ ApplyFixReturn(1)
    \/ Tick

FixInit == FixStart /\ ScanIdle /\ SumIdle /\ WsIdle /\ DiagIdle /\ UndoIdle /\ UiIdle

FixSpec == FixInit /\ [][FixNext]_vars

\* applyMultipleFixes: the fixes of a list are applied one after the other,
\* each awaited before the next; no read, write, backup or log call fails
MultiFixNext ==
    \/ ApplyFixBegin(1) /\ ~cur'[1].ioError
    \/ ApplyFixWrite(1) /\ ~cur'[1].ioError
    \/ ApplyFixFinish(1)
    \/ ApplyFixReturn(1)
    \/ Tick

MultiFixSpec == FixInit /\ [][MultiFixNext]_vars

\* the issues of the race: fixes for the one file of the workspace
RaceIssues == {issue \in FixIssues : issue.file_path = TargetFile /\ issue.fix.present}

\* two Apply Fix commands, one applyFix call each, whose executions may
\* overlap: each runs to its next await, then either may go on
FixRaceNext ==
    \/ \E p \in Procs : ApplyFixBegin(p) /\ cur'[p].issue \in RaceIssues
    \/ \E p \in Procs : ApplyFixWrite(p)
    \/ \E p \in Procs : ApplyFixFinish(p)

FixRaceSpec == FixInit /\ [][FixRaceNext]_vars

----------------------------------------------------------------------------
(* Scanner: addLineNumbers, chunkByLines *)

\* scanFile: const chunkOverlapLines = 40
chunkOverlapLines == 40

\* addLineNumbers: each line of text.split('\n') gets its 1-based number,
\* zero-padded, as a prefix; a numbered line is [num, text]
AddLineNumbers(text) == [i \in 1..Len(text) |-> [num |-> i, text |-> text[i]]]

\* chunkByLines: const end = Math.min(start + maxLines, n)
ChunkEnd(st, maxL, n) == Min(st + maxL, n)

\* a chunker that moves on without overlap: start = end
NextStartNoOverlap(end, overlap) == end

\* chunkByLines: start = Math.max(0, end - overlapLines)
NextStart(end, overlap) == Max(0, end - overlap)

\* a slice that is off by one: lines.slice(start + 1, end)
ChunkSliceOffByOne(ls, st, end) == SubSeq(ls, st + 2, end)

\* chunkByLines: lines.slice(start, end).join('\n'); a chunk is kept as the
\* sequence of its numbered lines (join and the later split('\n') are
\* inverse on lines, which hold no newline)
ChunkSlice(ls, st, end) == SubSeq(ls, st + 1, end)

\* one iteration of `while (start < n)` in chunkByLines
ChunkLoopStep ==
    /\ spc = "chunking"
    /\ start < Len(lines)
    /\ Len(chunks) < Len(lines) + MaxSpin
    /\ LET end == ChunkEnd(start, maxLines, Len(lines))
       IN /\ chunks' = Append(chunks, ChunkSlice(lines, start, end))
          /\ IF end = Len(lines)
             THEN spc' = "chunked" /\ start' = start
             ELSE spc' = spc /\ start' = NextStart(end, overlapLines)
    /\ UNCHANGED <<cfg, src, lines, maxLines, overlapLines, ci, allIssues, lastCall, inflight>>
    /\ UNCHANGED <<fixVars, sumVars, wsVars, diagVars, undoVars, uiVars>>

\* chunkByLines called on a file of N lines with maxLines = M and
\* overlapLines = O < M
ChunkStart ==
    \E n \in 1..MaxN, m \in 1..MaxM :
      \E o \in 0..(m - 1) :
        /\ cfg = [chunkMaxLines |-> m, modelAvailable |-> FALSE]
        /\ src = [path |-> "", exists |-> TRUE, text |-> [i \in 1..n |-> "safe"]]
        /\ spc = "chunking"
        /\ lines = AddLineNumbers(src.text)
        /\ maxLines = m
        /\ overlapLines = o
        /\ start = 0
        /\ chunks = <<>>
        /\ ci = 1
        /\ allIssues = <<>>
        /\ lastCall = NoCall
        /\ inflight = 0

FixIdle ==
    /\ files = [p \in Paths |-> [exists |-> FALSE, content |-> <<>>]]
    /\ backups = <<>>
    /\ fixLogs = <<>>
    /\ now = 0
    /\ pc = [p \in Procs |-> "idle"]
    /\ cur = [p \in Procs |-> IdleCur]
    /\ result = [p \in Procs |-> NoResult]
    /\ nfix = 0

ChunkInit == ChunkStart /\ FixIdle /\ SumIdle /\ WsIdle /\ DiagIdle /\ UndoIdle /\ UiIdle

ChunkNext == ChunkLoopStep

ChunkSpec == ChunkInit /\ [][ChunkNext]_vars

----------------------------------------------------------------------------
(* Scanner: scanFile, analyzeWithRules, analyzeWithLLM, parseLLMResponse *)

\* the file scanFile is called on
ScanPath == "app.py"

\* the categories of `patterns`, in Object.entries order
VulnTypes == <<"sql_injection", "hardcoded_secrets", "command_injection", "weak_crypto", "xss">>
VulnTypeSet == {VulnTypes[i] : i \in 1..Len(VulnTypes)}

\* a source line is "safe" (no pattern matches in it) or holds one match of
\* one pattern: of the named category, or random.random(), which the code
\* lists among the weak_crypto patterns
SafeLine == "safe"
InsecureRandom == "insecure_random"
PatternKinds == VulnTypeSet \cup {InsecureRandom}
CategoryOfLine(text) == IF text = InsecureRandom THEN "weak_crypto" ELSE text

\* the issues of this analysis carry no cwe_id
NoCwe == ""

\* the security policy's table of CWE mappings, by what a line holds
CatalogueCwe(kind) ==
    CASE kind = "sql_injection" -> "CWE-89"
      [] kind = "xss" -> "CWE-79"
      [] kind = "command_injection" -> "CWE-78"
      [] kind = "hardcoded_secrets" -> "CWE-798"
      [] kind = "weak_crypto" -> "CWE-327"
      [] kind = InsecureRandom -> "CWE-338"
      [] OTHER -> NoCwe
CatalogueSeverity(kind) ==
    CASE kind = "sql_injection" -> "high"
      [] kind = "xss" -> "medium"
      [] kind = "command_injection" -> "critical"
      [] kind = "hardcoded_secrets" -> "critical"
      [] kind = "weak_crypto" -> "high"
      [] kind = InsecureRandom -> "medium"
      [] OTHER -> ""

\* severityMap[vulnType] || 'medium'
SeverityOf(vulnType) ==
    CASE vulnType = "sql_injection" -> "high"
      [] vulnType = "hardcoded_secrets" -> "critical"
      [] vulnType = "command_injection" -> "critical"
      [] vulnType = "weak_crypto" -> "high"
      [] vulnType = "xss" -> "medium"
      [] OTHER -> "medium"

\* getVulnerabilityTitle
TitleOf(vulnType) ==
    CASE vulnType = "sql_injection" -> "SQL Injection Vulnerability"
      [] vulnType = "hardcoded_secrets" -> "Hardcoded Secret Detected"
      [] vulnType = "command_injection" -> "Command Injection Vulnerability"
      [] vulnType = "weak_crypto" -> "Weak Cryptographic Algorithm"
      [] vulnType = "xss" -> "Cross-Site Scripting (XSS) Vulnerability"
      [] OTHER -> "Vulnerability"

NoLine == [num |-> 0, text |-> ""]

\* the 1-based positions, within the chunk, of the lines a pattern of the
\* category matches, in text order (pattern.exec with the g flag)
RECURSIVE MatchPositions(_, _, _)
MatchPositions(chunk, vulnType, i) ==
    IF i > Len(chunk) THEN <<>>
    ELSE (IF CategoryOfLine(chunk[i].text) = vulnType THEN <<i>> ELSE <<>>)
         \o MatchPositions(chunk, vulnType, i + 1)

\* content.substring(0, match.index).split('\n').length: one more than the
\* number of newlines of the chunk before the match
LineNumberOfMatch(chunk, pos) == pos

\* the issue analyzeWithRules pushes for one match; description carries
\* lineContent = lines[lineNum - 1], the numbered line of the chunk
RuleIssue(filePath, chunk, vulnType, pos, chunkIndex) ==
    LET lineNum == LineNumberOfMatch(chunk, pos)
    IN [title |-> TitleOf(vulnType),
        description |-> IF lineNum <= Len(chunk) THEN chunk[lineNum] ELSE NoLine,
        severity |-> SeverityOf(vulnType),
        file_path |-> filePath,
        line |-> lineNum,
        fix |-> NoFix,
        vulnerability_type |-> vulnType,
        cwe_id |-> NoCwe,
        origin |-> "rules",
        chunk |-> chunkIndex]

RECURSIVE RuleIssuesFrom(_, _, _, _)
RuleIssuesFrom(filePath, chunk, t, chunkIndex) ==
    IF t > Len(VulnTypes) THEN <<>>
    ELSE LET ps == MatchPositions(chunk, VulnTypes[t], 1)
         IN [j \in 1..Len(ps) |-> RuleIssue(filePath, chunk, VulnTypes[t], ps[j], chunkIndex)]
            \o RuleIssuesFrom(filePath, chunk, t + 1, chunkIndex)

\* a rule engine that leaves the overlap lines to the previous chunk
AnalyzeWithRulesOnce(filePath, chunk, chunkIndex) ==
    SelectSeq(RuleIssuesFrom(filePath, chunk, 1, chunkIndex),
              LAMBDA issue : chunkIndex = 1 \/ issue.line > chunkOverlapLines)

\* analyzeWithRules(filePath, content)
AnalyzeWithRules(filePath, chunk, chunkIndex) == RuleIssuesFrom(filePath, chunk, 1, chunkIndex)

\* ---- the model's answer ----
\* an element of the 'issues' array of the model's JSON: an object (absent
\* keys are "" or 0), null, or a primitive (a number, a string, true)
SampleFix == [present |-> TRUE, before |-> <<"a">>, after |-> <<"b">>]
FullItem == [kind |-> "object", title |-> "Race condition", severity |-> "high",
             file_path |-> "/etc/passwd", line |-> 7, fix |-> SampleFix]
BareItem == [kind |-> "object", title |-> "", severity |-> "", file_path |-> "",
             line |-> 0, fix |-> NoFix]
NullItem == [kind |-> "null", title |-> "", severity |-> "", file_path |-> "",
             line |-> 0, fix |-> NoFix]
PrimitiveItem == [kind |-> "primitive", title |-> "", severity |-> "", file_path |-> "",
                  line |-> 0, fix |-> NoFix]
\* an object whose 'severity' is a word outside the four of the prompt
OddItem == [kind |-> "object", title |-> "Verbose logging", severity |-> "info",
            file_path |-> "", line |-> 3, fix |-> NoFix]

\* what generate() can end with: the text of a process that exited with
\* code 0, classified by what parseLLMResponse finds in it, or a rejection
Responses ==
    {[form |-> f, items |-> <<>>] :
        f \in {"no_json", "bad_json", "no_issues_key", "issues_not_array", "issues_array"}}
    \cup {[form |-> "issues_array", items |-> it] :
            it \in {<<FullItem>>, <<BareItem>>, <<NullItem>>, <<PrimitiveItem>>,
                    <<OddItem>>, <<FullItem, NullItem>>, <<FullItem, PrimitiveItem>>}}
LLMOutcomes ==
    {[kind |-> "resolved", form |-> r.form, items |-> r.items] : r \in Responses}
    \cup {[kind |-> k, form |-> "none", items |-> <<>>] :
            k \in {"exit_nonzero", "spawn_error", "timeout"}}

\* a parser that keeps the file_path the model wrote when there is one
ParseItemTrusting(item, filePath, chunkIndex) ==
    [title |-> IF item.title = "" THEN "Security Issue" ELSE item.title,
     description |-> NoLine,
     severity |-> IF item.severity = "" THEN "medium" ELSE item.severity,
     file_path |-> IF item.file_path = "" THEN filePath ELSE item.file_path,
     line |-> item.line,
     fix |-> item.fix,
     vulnerability_type |-> "",
     cwe_id |-> NoCwe,
     origin |-> "model",
     chunk |-> chunkIndex]

\* the object parseLLMResponse builds from one element of data.issues;
\* property reads on a primitive give undefined, as on an object without
\* the key
ParseItem(item, filePath, chunkIndex) ==
    [title |-> IF item.title = "" THEN "Security Issue" ELSE item.title,
     description |-> NoLine,
     severity |-> IF item.severity = "" THEN "medium" ELSE item.severity,
     file_path |-> filePath,
     line |-> item.line,
     fix |-> item.fix,
     vulnerability_type |-> "",
     cwe_id |-> NoCwe,
     origin |-> "model",
     chunk |-> chunkIndex]

\* parseLLMResponse: no {...} in the text, JSON.parse throwing, a falsy
\* data.issues, a data.issues without .map and a null element (TypeError in
\* the callback) all end in []
ParseLLMResponse(form, items, filePath, chunkIndex) ==
    IF form = "issues_array" /\ \A i \in 1..Len(items) : items[i].kind # "null"
    THEN [i \in 1..Len(items) |-> ParseItem(items[i], filePath, chunkIndex)]
    ELSE <<>>

\* analyzeWithLLM: a rejected generate() is caught and gives []
AnalyzeWithLLM(outcome, filePath, chunkIndex) ==
    IF outcome.kind = "resolved"
    THEN ParseLLMResponse(outcome.form, outcome.items, filePath, chunkIndex)
    ELSE <<>>

\* ---- scanFile ----
\* the values of the chunkMaxLines setting that are followed
ChunkMaxLinesValues == {1, 40, 41, 42, 400}

\* a file of n lines, safe but for line v (if any), which holds a match of
\* category k
FileText(n, v, k) == [i \in 1..n |-> IF i = v THEN k ELSE SafeLine]
FileLengths == {1, 2, LongFile}
SourceTexts ==
    {FileText(n, 0, SafeLine) : n \in FileLengths}
    \cup {FileText(n, v, k) : n \in FileLengths, v \in {1, 2, LongFile - 1, LongFile},
                              k \in PatternKinds}

ScanStart ==
    /\ cfg \in [chunkMaxLines : ChunkMaxLinesValues, modelAvailable : BOOLEAN]
    /\ src \in {[path |-> ScanPath, exists |-> FALSE, text |-> <<>>]}
               \cup {[path |-> ScanPath, exists |-> TRUE, text |-> t] : t \in SourceTexts}
    /\ spc = "idle"
    /\ lines = <<>>
    /\ maxLines = 0
    /\ overlapLines = 0
    /\ start = 0
    /\ chunks = <<>>
    /\ ci = 1
    /\ allIssues = <<>>
    /\ lastCall = NoCall
    /\ inflight = 0

\* scanFile up to the call of chunkByLines: existsSync, readFileSync,
\* addLineNumbers; a missing or unreadable file throws
ScanFileStart ==
    /\ spc = "idle"
    /\ \E readOk \in BOOLEAN :
         IF ~src.exists \/ ~readOk
         THEN /\ spc' = "threw"
              /\ UNCHANGED chunkVars
         ELSE /\ spc' = "chunking"
              /\ lines' = AddLineNumbers(src.text)
              /\ maxLines' = cfg.chunkMaxLines
              /\ overlapLines' = chunkOverlapLines
              /\ start' = 0
              /\ chunks' = <<>>
    /\ UNCHANGED <<cfg, src, ci, allIssues, lastCall, inflight>>
    /\ UNCHANGED <<fixVars, sumVars, wsVars, diagVars, undoVars, uiVars>>

\* a loop body that starts the model call and goes on without awaiting it
AfterRulesNoAwait(modelAvailable) == "chunked"

\* where the loop body stands after the rule pass: with a model it awaits
\* analyzeWithLLM, without one it is through with the chunk
AfterRules(modelAvailable) == IF modelAvailable THEN "llm" ELSE "chunked"

\* the body of `for (const chunk of chunks)` up to the await: the rule
\* issues are pushed, then generate() is called if a model is available
AnalyzeChunk ==
    /\ spc = "chunked"
    /\ ci <= Len(chunks)
    /\ allIssues' = allIssues \o AnalyzeWithRules(src.path, chunks[ci], ci)
    /\ spc' = AfterRules(cfg.modelAvailable)
    /\ ci' = IF spc' = "llm" THEN ci ELSE ci + 1
    /\ inflight' = IF cfg.modelAvailable THEN inflight + 1 ELSE inflight
    /\ UNCHANGED <<cfg, src, chunkVars, lastCall>>
    /\ UNCHANGED <<fixVars, sumVars, wsVars, diagVars, undoVars, uiVars>>

\* generate() settles and analyzeWithLLM returns; its issues are pushed
LLMSettle ==
    /\ spc = "llm"
    /\ \E o \in LLMOutcomes :
         LET llmIssues == AnalyzeWithLLM(o, src.path, ci)
         IN /\ allIssues' = allIssues \o llmIssues
            /\ lastCall' = [made |-> TRUE, chunk |-> ci, outcome |-> o.kind,
                            form |-> o.form, items |-> o.items, returned |-> llmIssues]
    /\ spc' = "chunked"
    /\ ci' = ci + 1
    /\ inflight' = inflight - 1
    /\ UNCHANGED <<cfg, src, chunkVars>>
    /\ UNCHANGED <<fixVars, sumVars, wsVars, diagVars, undoVars, uiVars>>

\* the loop over the chunks is over: return allIssues
ScanFileReturn ==
    /\ spc = "chunked"
    /\ ci > Len(chunks)
    /\ spc' = "done"
    /\ UNCHANGED <<cfg, src, chunkVars, ci, allIssues, lastCall, inflight>>
    /\ UNCHANGED <<fixVars, sumVars, wsVars, diagVars, undoVars, uiVars>>

Init == ScanStart /\ FixIdle /\ SumIdle /\ WsIdle /\ DiagIdle /\ UndoIdle /\ UiIdle

Next ==
    \/ ScanFileStart
    \/ ChunkLoopStep
    \/ AnalyzeChunk
    \/ LLMSettle
    \/ ScanFileReturn

Spec == Init /\ [][Next]_vars

----------------------------------------------------------------------------
(* Scanner: scanWorkspace, getScannableFiles *)

\* config.get('includeExtensions', [...])
includeExtensions == {".py", ".js", ".jsx", ".ts", ".tsx", ".sol"}
\* the directories never entered: here a list without the caches
SkippedDirectoriesShort == {"node_modules", ".git", ".vscode"}
SkippedDirectories == {"node_modules", ".git", ".vscode", "__pycache__", ".pytest_cache"}
\* config.get('maxFileSize', 1.5) * 1024 * 1024, in bytes
maxFileSize == (3 * 1024 * 1024) \div 2

\* a directory entry (fs.Dirent): `path` is path.join(dir, entry.name);
\* statOk tells whether fs.statSync succeeds, readable whether readdirSync
\* of a directory succeeds
FileEntry(name, path, ext, statOk, size) ==
    [kind |-> "file", name |-> name, path |-> path, ext |-> ext, statOk |-> statOk,
     size |-> size, readable |-> TRUE, entries |-> <<>>]
DirEntry(name, path, readable, entries) ==
    [kind |-> "dir", name |-> name, path |-> path, ext |-> "", statOk |-> TRUE,
     size |-> 0, readable |-> readable, entries |-> entries]

\* scanDirectory(dir): readdirSync throwing is caught and the directory
\* gives nothing; a file is pushed when its extension is included, statSync
\* succeeds and its size is within maxFileSize
RECURSIVE ScanDirectory(_), ScanEntries(_, _)
ScanDirectory(dir) ==
    IF dir.readable THEN ScanEntries(dir.entries, 1) ELSE <<>>
ScanEntries(entries, i) ==
    IF i > Len(entries) THEN <<>>
    ELSE LET entry == entries[i]
         IN (IF entry.kind = "dir"
             THEN (IF entry.name \in SkippedDirectories THEN <<>> ELSE ScanDirectory(entry))
             ELSE IF /\ entry.kind = "file"
                     /\ entry.ext \in includeExtensions
                     /\ entry.statOk
                     /\ entry.size <= maxFileSize
                  THEN <<entry.path>>
                  ELSE <<>>)
            \o ScanEntries(entries, i + 1)

\* getScannableFiles(workspacePath, includeExtensions, maxFileSize)
GetScannableFiles(ws) == ScanDirectory(ws)

\* allIssues.push(...issues) put at the front instead
PushAllInFront(arr, items) == items \o arr

\* allIssues.push(...issues)
PushAll(arr, items) == arr \o items

\* ---- the workspaces that are followed ----
\* a.py: two lines, an f-string query on line 1; lib/b.py: LongFile lines,
\* a hardcoded password on the line before the last; c.py: one line with an
\* innerHTML concatenation.  Around them: a file statSync fails on, a
\* directory that is never entered, an oversized file, a text file.
WsPaths == {"a.py", "lib/b.py", "c.py"}
WsDisk(aExists) ==
    [p \in WsPaths |->
        CASE p = "a.py" -> [exists |-> aExists, text |-> FileText(2, 1, "sql_injection")]
          [] p = "lib/b.py" -> [exists |-> TRUE,
                                text |-> FileText(LongFile, LongFile - 1, "hardcoded_secrets")]
          [] OTHER -> [exists |-> TRUE, text |-> FileText(1, 1, "xss")]]
WsTree(rootReadable, libReadable, aExists) ==
    [readable |-> rootReadable,
     entries |-> <<
        FileEntry("a.py", "a.py", ".py", TRUE, 40),
        DirEntry("lib", "lib", libReadable, <<
            FileEntry("b.py", "lib/b.py", ".py", TRUE, 2000),
            FileEntry("locked.py", "lib/locked.py", ".py", FALSE, 10) >>),
        DirEntry("node_modules", "node_modules", TRUE, <<
            FileEntry("x.js", "node_modules/x.js", ".js", TRUE, 10) >>),
        FileEntry("big.py", "big.py", ".py", TRUE, maxFileSize + 1),
        FileEntry("notes.txt", "notes.txt", ".txt", TRUE, 10),
        FileEntry("c.py", "c.py", ".py", TRUE, 20) >>,
     disk |-> WsDisk(aExists)]
Workspaces ==
    {WsTree(r, l, a) : r \in BOOLEAN, l \in BOOLEAN, a \in BOOLEAN}
\* the settings the workspace scans run under
WsConfigs ==
    {[chunkMaxLines |-> 42, modelAvailable |-> TRUE],
     [chunkMaxLines |-> 400, modelAvailable |-> FALSE],
     [chunkMaxLines |-> 40, modelAvailable |-> FALSE]}

WsStart ==
    /\ workspace \in Workspaces
    /\ wpc = "idle"
    /\ wfiles = <<>>
    /\ wi = 0
    /\ wIssues = <<>>
    /\ cancelled = FALSE
    /\ cfg \in WsConfigs
    /\ src = [path |-> "", exists |-> FALSE, text |-> <<>>]
    /\ spc = "notCalled"
    /\ lines = <<>>
    /\ maxLines = 0
    /\ overlapLines = 0
    /\ start = 0
    /\ chunks = <<>>
    /\ ci = 1
    /\ allIssues = <<>>
    /\ lastCall = NoCall
    /\ inflight = 0

\* scanWorkspace up to its loop: getScannableFiles, allIssues = []
ScanWorkspaceStart ==
    /\ wpc = "idle"
    /\ wfiles' = GetScannableFiles(workspace)
    /\ wIssues' = <<>>
    /\ wi' = 0
    /\ wpc' = "loop"
    /\ UNCHANGED <<workspace, cancelled>>
    /\ UNCHANGED <<scanVars, fixVars, sumVars, diagVars, undoVars, uiVars>>

\* the head of `for (let i = 0; i < files.length; i++)`: the loop ends
\* when the files are exhausted or the token is cancelled; otherwise
\* scanFile(files[i]) is called
WsLoopHead ==
    /\ wpc = "loop"
    /\ IF wi >= Len(wfiles) \/ cancelled
       THEN /\ wpc' = "returned"
            /\ UNCHANGED scanVars
       ELSE LET file == wfiles[wi + 1]
            IN /\ wpc' = "scanning"
               /\ src' = [path |-> file, exists |-> workspace.disk[file].exists,
                          text |-> workspace.disk[file].text]
               /\ spc' = "idle"
               /\ ci' = 1
               /\ allIssues' = <<>>
               /\ lines' = <<>>
               /\ maxLines' = 0
               /\ overlapLines' = 0
               /\ start' = 0
               /\ chunks' = <<>>
               /\ UNCHANGED <<cfg, lastCall, inflight>>
    /\ UNCHANGED <<workspace, wfiles, wi, wIssues, cancelled>>
    /\ UNCHANGED <<fixVars, sumVars, diagVars, undoVars, uiVars>>

\* `await this.scanFile(file)` settles: the issues are pushed, or the
\* rejection is caught and logged; then i++
WsAwaitScanFile ==
    /\ wpc = "scanning"
    /\ spc \in {"done", "threw"}
    /\ wIssues' = IF spc = "done" THEN PushAll(wIssues, allIssues) ELSE wIssues
    /\ wi' = wi + 1
    /\ wpc' = "loop"
    /\ UNCHANGED <<workspace, wfiles, cancelled>>
    /\ UNCHANGED <<scanVars, fixVars, sumVars, diagVars, undoVars, uiVars>>

\* the user cancels the progress notification
Cancel ==
    /\ wpc # "returned"
    /\ ~cancelled
    /\ cancelled' = TRUE
    /\ UNCHANGED <<workspace, wpc, wfiles, wi, wIssues>>
    /\ UNCHANGED <<scanVars, fixVars, sumVars, diagVars, undoVars, uiVars>>

WorkspaceInit == WsStart /\ FixIdle /\ SumIdle /\ DiagIdle /\ UndoIdle /\ UiIdle

WorkspaceNext ==
    \/ ScanWorkspaceStart
    \/ WsLoopHead
    \/ WsAwaitScanFile
    \/ Cancel
    \/ ScanFileStart
    \/ ChunkLoopStep
    \/ AnalyzeChunk
    \/ LLMSettle
    \/ ScanFileReturn

WorkspaceSpec == WorkspaceInit /\ [][WorkspaceNext]_vars

\* every step of the scan that can be taken is eventually taken: the
\* event loop runs the continuation of a settled await, and generate()
\* settles (its child process closes, fails to spawn or hits the timeout)
WorkspaceFairSpec == WorkspaceSpec /\ WF_vars(WorkspaceNext)

\* ---- getScannableFiles on its own ----
\* trees of depth three: a file at the root, a directory holding a file and
\* a subdirectory with one more file.  Paths are the sequences of names
\* that path.join puts together.
DiscoveryTree(ext, statOk, size, dirName, dirReadable, subName, subReadable, rootReadable) ==
    [readable |-> rootReadable,
     entries |-> <<
        FileEntry("main", <<"main">>, ext, statOk, size),
        DirEntry(dirName, <<dirName>>, dirReadable, <<
            FileEntry("util.js", <<dirName, "util.js">>, ".js", TRUE, 10),
            DirEntry(subName, <<dirName, subName>>, subReadable, <<
                FileEntry("token.sol", <<dirName, subName, "token.sol">>, ".sol", TRUE, 10)
            >>) >>) >>]
DiscoveryTrees ==
    {DiscoveryTree(ext, statOk, size, dirName, dirReadable, subName, subReadable, rootReadable) :
        ext \in {".py", ".txt"}, statOk \in BOOLEAN,
        size \in {maxFileSize, maxFileSize + 1},
        dirName \in {"lib", "node_modules", ".git"}, dirReadable \in BOOLEAN,
        subName \in {"contracts", "__pycache__"}, subReadable \in BOOLEAN,
        rootReadable \in BOOLEAN}

DiscoveryStart ==
    /\ workspace \in DiscoveryTrees
    /\ wpc = "idle"
    /\ wfiles = <<>>
    /\ wi = 0
    /\ wIssues = <<>>
    /\ cancelled = FALSE

DiscoveryInit == DiscoveryStart /\ ScanIdle /\ FixIdle /\ SumIdle /\ DiagIdle /\ UndoIdle /\ UiIdle

DiscoveryNext == ScanWorkspaceStart

DiscoverySpec == DiscoveryInit /\ [][DiscoveryNext]_vars

----------------------------------------------------------------------------
(* Summary: generateSummary (extension.ts), renderResults (app.js) *)

\* the severities an issue can carry into the summary: the four of the
\* SecurityIssue type, none ("": undefined, null or empty), and, since
\* parseLLMResponse copies the model's string, any other text: a word that
\* names nothing, and a word that names a property every object inherits
SummarySeverities == {"low", "medium", "high", "critical", "", "info", "constructor"}

\* property names a fresh {} answers through Object.prototype
InheritedKeys == {"constructor", "toString", "valueOf", "hasOwnProperty"}

\* a value held by the accumulator: a number n, or (isCount false) the text
\* of an inherited function followed by n times "1"
Count(n) == [isCount |-> TRUE, n |-> n]
NotACount(n) == [isCount |-> FALSE, n |-> n]

\* acc[severity]: an own property, else an inherited one, else undefined,
\* which `|| 0` turns into 0
Lookup(acc, key) ==
    IF key \in DOMAIN acc THEN acc[key]
    ELSE IF key \in InheritedKeys THEN NotACount(0)
    ELSE Count(0)

\* (acc[severity] || 0) + 1: a number is incremented; a function or a
\* string is truthy, and `+ 1` appends "1" to its text
Incremented(v) == IF v.isCount THEN Count(v.n + 1) ELSE NotACount(v.n + 1)

\* const severity = issue.severity || 'medium'
SeverityKey(severity) == IF severity = "" THEN "medium" ELSE severity

\* the reduce callback
FoldStep(acc, issue) ==
    LET key == SeverityKey(issue.severity)
    IN WriteEntry(acc, key, Incremented(Lookup(acc, key)))

\* results.reduce(callback, {})
RECURSIVE FoldFrom(_, _, _)
FoldFrom(acc, rs, i) ==
    IF i > Len(rs) THEN acc ELSE FoldFrom(FoldStep(acc, rs[i]), rs, i + 1)

BySeverity(rs) == FoldFrom(<<>>, rs, 1)

SumStart ==
    /\ results \in UNION {[1..k -> [severity : SummarySeverities]] : k \in 0..MaxIssues}
    /\ summary = NoSummary

\* generateSummary(results): results.length and the fold (an empty list
\* gives 'No security issues found' and no counts)
GenerateSummary ==
    /\ ~summary.done
    /\ summary' = [done |-> TRUE, total |-> Len(results),
                   bySeverity |-> IF Len(results) = 0 THEN <<>> ELSE BySeverity(results)]
    /\ UNCHANGED results
    /\ UNCHANGED <<fixVars, scanVars, wsVars, diagVars, undoVars, uiVars>>

SummaryInit == SumStart /\ FixIdle /\ ScanIdle /\ WsIdle /\ DiagIdle /\ UndoIdle /\ UiIdle

SummaryNext == GenerateSummary

SummarySpec == SummaryInit /\ [][SummaryNext]_vars

----------------------------------------------------------------------------
(* Diagnostics: DiagnosticProvider.createDiagnostics, updateDiagnostics *)

\* a severity that is not a string (the model answered a number)
NotAString == "<number>"

\* mapSeverity: severity.toLowerCase() throws on a non-string
MapSeverity(severity) ==
    CASE severity = "critical" -> "Error"
      [] severity = "high" -> "Error"
      [] severity = "medium" -> "Warning"
      [] severity = "low" -> "Information"
      [] OTHER -> "Warning"

\* createDiagnostic: the diagnostic of an issue, or null when building it
\* throws (the catch block returns null)
NullDiagnostic == [isNull |-> TRUE, severity |-> "", line |-> 0, title |-> "", file_path |-> ""]
CreateDiagnostic(issue) ==
    IF issue.severity = NotAString THEN NullDiagnostic
    ELSE [isNull |-> FALSE,
          severity |-> MapSeverity(issue.severity),
          line |-> Max(0, (IF issue.line = 0 THEN 1 ELSE issue.line) - 1),
          title |-> issue.title,
          file_path |-> issue.file_path]

IsDiagnostic(d) == ~d.isNull
IssuesOfFile(issues, filePath) == SelectSeq(issues, LAMBDA issue : issue.file_path = filePath)

\* createFileDiagnostics: the non-null diagnostics of the file's issues
CreateFileDiagnostics(filePath, issues) ==
    SelectSeq([i \in 1..Len(issues) |-> CreateDiagnostic(issues[i])], IsDiagnostic)

\* the body of createDiagnostics on a cleared collection: the issues are
\* grouped by file_path and every file with at least one diagnostic is set
GroupedDiagnostics(issues) ==
    LET paths == {issues[i].file_path : i \in 1..Len(issues)}
        withDiagnostics ==
            {f \in paths : Len(CreateFileDiagnostics(f, IssuesOfFile(issues, f))) > 0}
    IN [f \in withDiagnostics |-> CreateFileDiagnostics(f, IssuesOfFile(issues, f))]

\* the one collection object of the provider, as a reference
ThisCollection == "this.diagnosticCollection"
EmptyCollection == <<>>

\* what `for (const [uri, diagnostics] of diagnosticCollection)` iterates
\* in updateDiagnostics, after this.diagnosticCollection.clear() has run:
\* the argument's entries, which are the cleared collection's own entries
\* when the argument is that very object
EntriesAfterClear(argument, before) ==
    IF argument = ThisCollection THEN EmptyCollection ELSE before

RECURSIVE SetAll(_, _)
SetAll(collection, entries) ==
    IF DOMAIN entries = {} THEN collection
    ELSE LET uri == CHOOSE u \in DOMAIN entries : TRUE
         IN SetAll(WriteEntry(collection, uri, entries[uri]),
                   [u \in (DOMAIN entries) \ {uri} |-> entries[u]])

\* updateDiagnostics(diagnosticCollection): clear, then copy the argument
UpdateDiagnostics(argument, own) ==
    SetAll(EmptyCollection, EntriesAfterClear(argument, own))

\* issues as the scans produce them, of two files
DiagIssues ==
    {RuleIssue("a.py", AddLineNumbers(FileText(2, 1, "sql_injection")), "sql_injection", 1, 1),
     RuleIssue("c.py", AddLineNumbers(FileText(1, 1, "xss")), "xss", 1, 1),
     ParseItem(FullItem, "a.py", 1),
     ParseItem(OddItem, "c.py", 1),
     [ParseItem(BareItem, "c.py", 1) EXCEPT !.severity = NotAString]}

DiagStart ==
    /\ scanResults \in UNION {[1..k -> DiagIssues] : k \in 0..MaxIssues}
    /\ diagnosticCollection = EmptyCollection
    /\ diagnostics = NoCollection
    /\ dpc = "scanned"

\* const diagnostics = diagnosticProvider.createDiagnostics(results)
CreateDiagnostics ==
    /\ dpc = "scanned"
    /\ diagnosticCollection' = GroupedDiagnostics(scanResults)
    /\ diagnostics' = ThisCollection
    /\ dpc' = "created"
    /\ UNCHANGED scanResults
    /\ UNCHANGED <<fixVars, scanVars, sumVars, wsVars, undoVars, uiVars>>

\* diagnosticProvider.updateDiagnostics(diagnostics)
UpdateDiagnosticsCall ==
    /\ dpc = "created"
    /\ diagnosticCollection' = UpdateDiagnostics(diagnostics, diagnosticCollection)
    /\ dpc' = "updated"
    /\ UNCHANGED <<scanResults, diagnostics>>
    /\ UNCHANGED <<fixVars, scanVars, sumVars, wsVars, undoVars, uiVars>>

DiagInit == DiagStart /\ FixIdle /\ ScanIdle /\ SumIdle /\ WsIdle /\ UndoIdle /\ UiIdle

DiagNext == CreateDiagnostics \/ UpdateDiagnosticsCall

DiagSpec == DiagInit /\ [][DiagNext]_vars

\* the files single-file scans are run on, and the results scanFile may
\* return for one of them
DiagFiles == {issue.file_path : issue \in DiagIssues}
FileScanResults(f) ==
    UNION {[1..k -> {issue \in DiagIssues : issue.file_path = f}] : k \in 0..MaxIssues}

\* scanDocument (and the callback of Scan Current File) once scanFile(f) has
\* returned its results: createDiagnostics(results) clears the provider's
\* collection and sets the entries of the results, then updateDiagnostics is
\* handed that same collection
ScanDocument(f) ==
    /\ dpc = "updated"
    /\ \E fileResults \in FileScanResults(f) :
         /\ scanResults' = fileResults
         /\ diagnosticCollection' =
                UpdateDiagnostics(ThisCollection, GroupedDiagnostics(fileResults))
    /\ diagnostics' = ThisCollection
    /\ dpc' = "updated"
    /\ UNCHANGED <<fixVars, scanVars, sumVars, wsVars, undoVars, uiVars>>

\* a workspace scan is published, then single files are scanned again
\* (on save, after a fix, or by Scan Current File)
RescanNext ==
    \/ CreateDiagnostics
    \/ UpdateDiagnosticsCall
    \/ \E f \in DiagFiles : ScanDocument(f)

RescanSpec == DiagInit /\ [][RescanNext]_vars

----------------------------------------------------------------------------
(* Fix applier: undoLastFix *)

\* files of one directory that fixes were applied to; the basename of the
\* first is a prefix of the basename of the second
UndoFiles == {"app.js", "app.jsx", "lib.js"}

\* path.basename(filePath), as characters
BaseName(filePath) ==
    CASE filePath = "app.js" -> <<"a", "p", "p", ".", "j", "s">>
      [] filePath = "app.jsx" -> <<"a", "p", "p", ".", "j", "s", "x">>
      [] filePath = "app.py" -> <<"a", "p", "p", ".", "p", "y">>
      [] OTHER -> <<"l", "i", "b", ".", "j", "s">>

\* UTF-16 code units of the characters of backup file names: the order
\* Array.prototype.sort compares strings by
CharCode(c) ==
    CASE c = "-" -> 45 [] c = "." -> 46
      [] c = "0" -> 48 [] c = "1" -> 49 [] c = "2" -> 50 [] c = "3" -> 51
      [] c = "4" -> 52 [] c = "5" -> 53 [] c = "6" -> 54 [] c = "7" -> 55
      [] c = "8" -> 56 [] c = "9" -> 57
      [] c = "T" -> 84 [] c = "Z" -> 90
      [] c = "a" -> 97 [] c = "b" -> 98 [] c = "i" -> 105 [] c = "j" -> 106
      [] c = "k" -> 107 [] c = "l" -> 108 [] c = "p" -> 112 [] c = "s" -> 115
      [] c = "y" -> 121
      [] OTHER -> 120

Digit(n) == CASE n = 0 -> "0" [] n = 1 -> "1" [] n = 2 -> "2" [] n = 3 -> "3"
              [] n = 4 -> "4" [] n = 5 -> "5" [] n = 6 -> "6" [] n = 7 -> "7"
              [] n = 8 -> "8" [] OTHER -> "9"

\* new Date().toISOString().replace(/[:.]/g, '-') at clock value t: a
\* fixed-width text that starts with the year; of the fields after the
\* year only the last millisecond digit differs between the clock values
\* followed, and it is the one kept
Timestamp(t) == <<"2", "0", "2", "6", "-", Digit(t), "Z">>

\* createBackup: `${fileName}.${timestamp}.bak`
BackupFileName(filePath, t) ==
    BaseName(filePath) \o <<".">> \o Timestamp(t) \o <<".", "b", "a", "k">>

StartsWith(s, prefix) == Len(prefix) <= Len(s) /\ SubSeq(s, 1, Len(prefix)) = prefix
EndsWith(s, suffix) ==
    Len(suffix) <= Len(s) /\ SubSeq(s, Len(s) - Len(suffix) + 1, Len(s)) = suffix

\* s sorts before t under the default comparison of Array.prototype.sort
RECURSIVE SortsBefore(_, _)
SortsBefore(s, t) ==
    IF Len(t) = 0 THEN FALSE
    ELSE IF Len(s) = 0 THEN TRUE
    ELSE IF CharCode(Head(s)) # CharCode(Head(t)) THEN CharCode(Head(s)) < CharCode(Head(t))
    ELSE SortsBefore(Tail(s), Tail(t))

\* readdirSync(backupDir).filter(file => file.startsWith(basename) &&
\* file.endsWith('.bak')), as the keys of the matching entries
MatchingBackupKeys(dir, filePath) ==
    {k \in DOMAIN dir :
        /\ StartsWith(BackupFileName(k[1], k[2]), BaseName(filePath))
        /\ EndsWith(BackupFileName(k[1], k[2]), <<".", "b", "a", "k">>)}

\* .sort().reverse()[0]: the entry whose name sorts last
LatestBackupKey(keys) ==
    CHOOSE k \in keys :
        \A other \in keys :
            other = k \/ SortsBefore(BackupFileName(other[1], other[2]),
                                     BackupFileName(k[1], k[2]))

ReasonNoBackups == "No backups found"
ReasonNoBackupsForFile == "No backups found for this file"
ReasonUndoError == "Error undoing fix"

\* the content held by the backup made of file f at clock value t
BackupContent(filePath, t) == <<Head(BaseName(filePath)), Digit(t), IF filePath = "app.jsx" THEN "x" ELSE "s">>

UndoStart ==
    /\ \E keys \in SUBSET (UndoFiles \X (0..MaxTime)) :
          backups = [k \in keys |-> BackupContent(k[1], k[2])]
    /\ files = [p \in UndoFiles |-> [exists |-> TRUE, content |-> <<"f">>]]
    /\ fixLogs = <<>>
    /\ now = MaxTime
    /\ pc = [p \in Procs |-> "idle"]
    /\ cur = [p \in Procs |-> IdleCur]
    /\ result = [p \in Procs |-> NoResult]
    /\ nfix = 0
    /\ undo = NoUndo

\* undoLastFix(filePath); a backup directory exists once a backup was made
UndoLastFixOn(filePath) ==
    /\ \E readOk \in BOOLEAN, writeOk \in BOOLEAN :
         LET matching == MatchingBackupKeys(backups, filePath)
         IN IF DOMAIN backups = {} THEN
                /\ undo' = [done |-> TRUE, path |-> filePath, success |-> FALSE,
                            reason |-> ReasonNoBackups]
                /\ UNCHANGED files
            ELSE IF matching = {} THEN
                /\ undo' = [done |-> TRUE, path |-> filePath, success |-> FALSE,
                            reason |-> ReasonNoBackupsForFile]
                /\ UNCHANGED files
            ELSE IF ~readOk \/ ~writeOk THEN
                /\ undo' = [done |-> TRUE, path |-> filePath, success |-> FALSE,
                            reason |-> ReasonUndoError]
                /\ UNCHANGED files
            ELSE
                /\ files' = [files EXCEPT ![filePath] =
                               [exists |-> TRUE,
                                content |-> backups[LatestBackupKey(matching)]]]
                /\ undo' = [done |-> TRUE, path |-> filePath, success |-> TRUE,
                            reason |-> NoReason]
    /\ UNCHANGED <<backups, fixLogs, now, pc, cur, result, nfix>>
    /\ UNCHANGED <<scanVars, sumVars, wsVars, diagVars, uiVars>>

\* one Undo Last Fix command, for a file of the directory
UndoLastFix ==
    /\ ~undo.done
    /\ \E filePath \in UndoFiles : UndoLastFixOn(filePath)

UndoInit == UndoStart /\ ScanIdle /\ SumIdle /\ WsIdle /\ DiagIdle /\ UiIdle

UndoNext == UndoLastFix

UndoSpec == UndoInit /\ [][UndoNext]_vars

\* undoLastFix on the file of the fix that applyFix has just returned
\* success for
UndoAppliedFix ==
    /\ pc[1] = "done"
    /\ result[1].success
    /\ UndoLastFixOn(cur[1].issue.file_path)

\* fixes are applied one after the other; after a successful one the user
\* undoes it, once or again
RoundTripNext ==
    \/ ~undo.done /\ ApplyFixBegin(1)
    \/ ApplyFixWrite(1)
    \/ ApplyFixFinish(1)
    \/ ~undo.done /\ ApplyFixReturn(1)
    \/ Tick
    \/ UndoAppliedFix

RoundTripSpec == FixInit /\ [][RoundTripNext]_vars

----------------------------------------------------------------------------
(* Model provider: ModelProvider.generate *)

AllIdle == FixIdle /\ ScanIdle /\ SumIdle /\ WsIdle /\ DiagIdle /\ UndoIdle

\* a promise whose resolve and reject overwrite an earlier settlement
SettleLastWins(g, state, outcome, value) ==
    [g EXCEPT !.state = state, !.outcome = outcome, !.value = value]

\* resolve(...) / reject(...) of the promise made by `new Promise(...)`: the
\* first call settles it, every later call is ignored
Settle(g, state, outcome, value) ==
    IF g.state = "pending"
    THEN [g EXCEPT !.state = state, !.outcome = outcome, !.value = value]
    ELSE g

\* the first event of the call, kept for the properties
Noted(g, event) == [g EXCEPT !.first = IF g.first = "none" THEN event ELSE g.first]

\* generate(prompt): throws when no model is available (the async function
\* then returns a rejected promise), else spawns python3 and sets the timer
GenerateCall ==
    /\ gen.state = "idle"
    /\ \E available \in BOOLEAN :
         gen' = IF available
                THEN [gen EXCEPT !.state = "pending", !.spawned = TRUE]
                ELSE [gen EXCEPT !.state = "rejected", !.outcome = "unavailable"]
    /\ UNCHANGED <<fixVars, scanVars, sumVars, wsVars, diagVars, undoVars, web, cmd>>

\* pythonProcess.stdout.on('data'): output += data
StdoutData ==
    /\ gen.spawned /\ ~gen.closed /\ ~gen.errored
    /\ gen.output < MaxData
    /\ gen' = [gen EXCEPT !.output = gen.output + 1]
    /\ UNCHANGED <<fixVars, scanVars, sumVars, wsVars, diagVars, undoVars, web, cmd>>

\* pythonProcess.stderr.on('data'): errorOutput += data
StderrData ==
    /\ gen.spawned /\ ~gen.closed /\ ~gen.errored
    /\ gen.errorOutput < MaxData
    /\ gen' = [gen EXCEPT !.errorOutput = gen.errorOutput + 1]
    /\ UNCHANGED <<fixVars, scanVars, sumVars, wsVars, diagVars, undoVars, web, cmd>>

\* exit codes 'close' may carry: 0, 1, or null (-1) for a killed process; a
\* process that failed to start does not exit with 0
ExitCodes(g) ==
    IF g.errored THEN {1} ELSE IF g.killed THEN {0, -1} ELSE {0, 1}

\* pythonProcess.on('close', code)
ProcessClose ==
    /\ gen.spawned /\ ~gen.closed
    /\ \E code \in ExitCodes(gen) :
         LET closed == [gen EXCEPT !.closed = TRUE]
         IN gen' = IF code = 0
                   THEN Settle(Noted(closed, "output"), "resolved", "output", gen.output)
                   ELSE Settle(Noted(closed, "exit_nonzero"), "rejected", "exit_nonzero",
                               gen.errorOutput)
    /\ UNCHANGED <<fixVars, scanVars, sumVars, wsVars, diagVars, undoVars, web, cmd>>

\* pythonProcess.on('error'): the process could not be started
ProcessError ==
    /\ gen.spawned /\ ~gen.closed /\ ~gen.errored /\ ~gen.killed
    /\ gen.output = 0
    /\ gen' = Settle(Noted([gen EXCEPT !.errored = TRUE], "spawn_error"),
                     "rejected", "spawn_error", 0)
    /\ UNCHANGED <<fixVars, scanVars, sumVars, wsVars, diagVars, undoVars, web, cmd>>

\* the setTimeout callback, 30 s after the call: kill, then reject; the
\* timer is never cleared, so it fires after a settled call too
GenTimeout ==
    /\ gen.spawned /\ ~gen.timerFired
    /\ gen' = Settle(Noted([gen EXCEPT !.timerFired = TRUE, !.killed = ~gen.closed],
                           "timeout"),
                     "rejected", "timeout", 0)
    /\ UNCHANGED <<fixVars, scanVars, sumVars, wsVars, diagVars, undoVars, web, cmd>>

GenerateInit == AllIdle /\ gen = NoGen /\ web = NoWeb /\ cmd = NoCmd

GenerateNext ==
    \/ GenerateCall
    \/ StdoutData
    \/ StderrData
    \/ ProcessClose
    \/ ProcessError
    \/ GenTimeout

\* a timer that was set fires: the event loop runs it once its delay is over
GenerateSpec == GenerateInit /\ [][GenerateNext]_vars /\ WF_vars(GenTimeout)

----------------------------------------------------------------------------
(* Web UI: startScan, applyFix of static/app.js *)

\* a startScan that does not look at isScanning
NeverBusy(isScanning) == FALSE

\* `if (isScanning) return;`
Busy(isScanning) == isScanning

\* startScan() up to its await: the isScanning guard, the empty-path alert,
\* then isScanning = true, the button disabled and the POST /scan sent
StartScan(w) ==
    IF Busy(w.isScanning) THEN [w EXCEPT !.ignored = TRUE]
    ELSE IF w.pathEmpty THEN [w EXCEPT !.ignored = FALSE]
    ELSE [w EXCEPT !.isScanning = TRUE, !.scanBtnDisabled = TRUE,
                   !.status = "Scanning...", !.requests = w.requests + 1,
                   !.ignored = FALSE]

WebFrame == UNCHANGED <<fixVars, scanVars, sumVars, wsVars, diagVars, undoVars, gen, cmd>>

\* the user types a path into, or clears, the path input
EditPath ==
    /\ web' = [web EXCEPT !.pathEmpty = ~web.pathEmpty]
    /\ WebFrame

\* scanBtn.addEventListener('click', startScan): a disabled button
\* dispatches no click
ClickScan ==
    /\ ~web.scanBtnDisabled
    /\ web' = StartScan(web)
    /\ WebFrame

\* Enter in the path input calls startScan()
PressEnter ==
    /\ web' = StartScan(web)
    /\ WebFrame

\* the POST /scan request settles: renderResults and 'Scan Complete', or the
\* catch block and 'Error'; the finally block runs in both cases
ScanSettles ==
    /\ web.requests > 0
    /\ \E ok \in BOOLEAN, found \in BOOLEAN :
         web' = [web EXCEPT !.requests = web.requests - 1,
                            !.status = IF ok THEN "Scan Complete" ELSE "Error",
                            !.hasIssues = IF ok THEN found ELSE web.hasIssues,
                            !.isScanning = FALSE,
                            !.scanBtnDisabled = FALSE]
    /\ WebFrame

\* applyFix(issueId) for an issue of currentIssues, confirmed: POST /apply_fix
WebApplyFix ==
    /\ web.hasIssues
    /\ web.fixing + web.timers < MaxPending
    /\ web' = [web EXCEPT !.fixing = web.fixing + 1, !.status = "Applying fix..."]
    /\ WebFrame

\* the POST /apply_fix request settles; when the fix was applied,
\* setTimeout(() => startScan(), 1000)
WebApplyFixSettles ==
    /\ web.fixing > 0
    /\ \E applied \in BOOLEAN :
         web' = [web EXCEPT !.fixing = web.fixing - 1,
                            !.status = IF applied THEN "Fix Applied" ELSE "Fix Failed",
                            !.timers = IF applied THEN web.timers + 1 ELSE web.timers]
    /\ WebFrame

\* the refresh timer set by applyFix fires: startScan()
RefreshTimer ==
    /\ web.timers > 0
    /\ web' = StartScan([web EXCEPT !.timers = web.timers - 1])
    /\ WebFrame

WebInit == AllIdle /\ gen = NoGen /\ web = NoWeb /\ cmd = NoCmd

WebNext ==
    \/ EditPath
    \/ ClickScan
    \/ PressEnter
    \/ ScanSettles
    \/ WebApplyFix
    \/ WebApplyFixSettles
    \/ RefreshTimer

\* a request that was sent succeeds or fails in the end
WebSpec == WebInit /\ [][WebNext]_vars /\ WF_vars(ScanSettles)

----------------------------------------------------------------------------
(* Scan commands: scanCurrentFile of extension.ts *)

\* whether the command is still inside its try block while the callback
\* handed to withProgress runs: withProgress(...) is called without await
\* and without return, so the try block is left as soon as the call returns
InTryWhileScanning == FALSE

CmdFrame == UNCHANGED <<fixVars, scanVars, sumVars, wsVars, diagVars, undoVars, gen, web>>

\* the Scan Current File command for a supported document: withProgress is
\* called, its callback begins `await securityScanner.scanFile(...)`, and
\* the command function returns
ScanCurrentFileCommand ==
    /\ cmd.pc = "idle"
    /\ cmd' = [cmd EXCEPT !.pc = "scanning", !.inTry = InTryWhileScanning]
    /\ CmdFrame

\* scanFile returned: diagnostics are updated and the summary is shown
CallbackShowsSummary ==
    /\ cmd.pc = "scanning"
    /\ spc = "done"
    /\ cmd' = [cmd EXCEPT !.pc = "finished", !.summaryShown = TRUE]
    /\ CmdFrame

\* scanFile threw: the callback's promise is rejected and with it the one
\* withProgress returned; the catch block of the command runs only for an
\* error raised while the command is inside its try block
CallbackRejects ==
    /\ cmd.pc = "scanning"
    /\ spc = "threw"
    /\ cmd' = [cmd EXCEPT !.pc = "failed",
                          !.errorShown = cmd.inTry,
                          !.unhandled = ~cmd.inTry]
    /\ CmdFrame

CommandInit == ScanStart /\ FixIdle /\ SumIdle /\ WsIdle /\ DiagIdle /\ UndoIdle /\ UiIdle

CommandNext ==
    \/ ScanCurrentFileCommand
    \/ cmd.pc = "scanning" /\ ScanFileStart
    \/ ChunkLoopStep
    \/ AnalyzeChunk
    \/ LLMSettle
    \/ ScanFileReturn
    \/ CallbackShowsSummary
    \/ CallbackRejects

CommandSpec == CommandInit /\ [][CommandNext]_vars

----------------------------------------------------------------------------
(* Fix applier: properties *)

\* the text the fix is meant to produce: the first occurrence of `before`
\* replaced by the characters of `after`, taken literally
LiteralReplaceFirst(s, before, after) ==
    LET pos == IndexOf(s, before)
    IN Substring(s, 0, pos) \o after \o Substring(s, pos + Len(before), Len(s))

\* the invocation has passed writeFileSync(filePath, newContent)
HasWritten(p) == pc[p] = "logged" \/ (pc[p] = "done" /\ result[p].success)

\* C1: applyFix on an issue whose fix.before does not occur in the content
\* it read returns the "file may have been modified" failure in that same
\* step and leaves the file, the backups and the fix log as they were.
C1_AbsentBeforeFails ==
    [][\A p \in Procs :
         (/\ pc[p] = "idle" /\ pc'[p] # "idle"
          /\ cur'[p].issue.fix.present
          /\ files[cur'[p].issue.file_path].exists
          /\ ~cur'[p].ioError
          /\ ~Includes(files[cur'[p].issue.file_path].content, cur'[p].issue.fix.before))
         => (/\ pc'[p] = "done"
             /\ result'[p] = Failure(ReasonNotApplicable)
             /\ files' = files
             /\ backups' = backups
             /\ fixLogs' = fixLogs)]_vars

\* C1 witness: an applyFix has returned the not-applicable failure for a
\* `before` that is absent from the file, which still holds what was read
C1_Witness ==
    \E p \in Procs :
        /\ pc[p] = "done"
        /\ result[p] = Failure(ReasonNotApplicable)
        /\ cur[p].issue.fix.present
        /\ ~Includes(cur[p].content, cur[p].issue.fix.before)
        /\ files[cur[p].issue.file_path].content = cur[p].content
        /\ Len(cur[p].content) > 0

\* C2 (as claimed): after a successful applyFix the file holds P + after + S,
\* the first occurrence of `before` replaced by the literal text of `after`.
\* Stated for the plain case: a non-empty `before`, no I/O error on the way.
C2_LiteralFirstReplacement ==
    \A p \in Procs :
        (/\ pc[p] = "done" /\ result[p].success
         /\ ~cur[p].ioError
         /\ Len(cur[p].issue.fix.before) > 0)
        => files[cur[p].issue.file_path].content
             = LiteralReplaceFirst(cur[p].content, cur[p].issue.fix.before,
                                   cur[p].issue.fix.after)

\* C3 (as claimed): a file overwritten by applyFix has a backup of the
\* content it had before the fix.
C3_BackupBeforeWrite ==
    \A p \in Procs :
        HasWritten(p)
        => \E k \in DOMAIN backups :
              k[1] = cur[p].issue.file_path /\ backups[k] = cur[p].content

\* C4 (as claimed): a missing fix, a missing file and every I/O error during
\* the operation end in a failure result that carries a reason.
C4_FailuresReported ==
    \A p \in Procs :
        (/\ pc[p] = "done"
         /\ \/ ~cur[p].issue.fix.present
            \/ ~files[cur[p].issue.file_path].exists
            \/ cur[p].ioError)
        => (~result[p].success /\ result[p].reason # NoReason)

\* C19 (as claimed): applyFix changes the file only for a fix whose `before`
\* is not empty; on an issue whose fix has an empty `before` it returns a
\* failure result with a reason.
C19_EmptyBeforeRejected ==
    \A p \in Procs :
        /\ (/\ HasWritten(p)
            /\ ~cur[p].ioError
            /\ files[cur[p].issue.file_path].content # cur[p].content)
           => Len(cur[p].issue.fix.before) > 0
        /\ (/\ pc[p] = "done"
            /\ cur[p].issue.fix.present
            /\ Len(cur[p].issue.fix.before) = 0)
           => (~result[p].success /\ result[p].reason # NoReason)

----------------------------------------------------------------------------
(* Chunker: properties *)

\* ceil(a / b) for b > 0
CeilDiv(a, b) == (a + b - 1) \div b

FirstLine(chunk) == chunk[1].num
LastLine(chunk) == chunk[Len(chunk)].num
LinesOf(chunk) == {chunk[i].num : i \in 1..Len(chunk)}

\* C5: for O < M, chunkByLines returns ceil((N-O)/(M-O)) chunks when N > M
\* and exactly one chunk when N <= M.
C5_ChunkCount ==
    (spc = "chunked" /\ overlapLines < maxLines)
    => Len(chunks) = IF Len(lines) > maxLines
                     THEN CeilDiv(Len(lines) - overlapLines, maxLines - overlapLines)
                     ELSE 1

\* C5 witness: a file longer than maxLines was cut, with a real overlap,
\* into at least three chunks
C5_Witness ==
    /\ spc = "chunked"
    /\ Len(lines) > maxLines
    /\ overlapLines > 0 /\ overlapLines < maxLines
    /\ Len(chunks) >= 3

\* C6: for O < M the chunks cover the file exactly: chunk 1 starts at line
\* 1, each later chunk starts O lines before the end of its predecessor,
\* every chunk but the last has M lines, the last ends at line N, and the
\* union of the chunks' lines is 1..N.
C6_ChunksCoverFile ==
    (spc = "chunked" /\ overlapLines < maxLines)
    => /\ Len(chunks) >= 1
       /\ \A k \in 1..Len(chunks) : Len(chunks[k]) >= 1
       /\ FirstLine(chunks[1]) = 1
       /\ \A k \in 2..Len(chunks) :
             FirstLine(chunks[k]) = LastLine(chunks[k - 1]) - overlapLines + 1
       /\ \A k \in 1..(Len(chunks) - 1) : Len(chunks[k]) = maxLines
       /\ \A k \in 1..Len(chunks) : \A i \in 1..Len(chunks[k]) :
             chunks[k][i].num = FirstLine(chunks[k]) + i - 1
       /\ LastLine(chunks[Len(chunks)]) = Len(lines)
       /\ UNION {LinesOf(chunks[k]) : k \in 1..Len(chunks)} = 1..Len(lines)

\* C6 witness: several chunks with overlap, the last one shorter than M
C6_Witness ==
    /\ spc = "chunked"
    /\ overlapLines > 0 /\ overlapLines < maxLines
    /\ Len(chunks) >= 3
    /\ Len(chunks[Len(chunks)]) < maxLines

----------------------------------------------------------------------------
(* Scanner: properties *)

\* C7 (as claimed): scanFile runs chunkByLines only with overlapLines <
\* maxLines, and the loop makes progress: it never holds more chunks than
\* the file has lines.
C7_ChunkerPreconditionEnforced ==
    (spc = "chunking")
    => (overlapLines < maxLines /\ Len(chunks) <= Len(lines))

\* C8 (as claimed): every issue of the rule engine reports the file line
\* number carried by the numeric prefix of the line it matched.
C8_RuleIssueLineIsAbsolute ==
    \A i \in 1..Len(allIssues) :
        allIssues[i].origin = "rules"
        => allIssues[i].line = allIssues[i].description.num

\* the model's answer is not a list of issue objects
MalformedAnswer(call) ==
    \/ call.outcome # "resolved"
    \/ call.form # "issues_array"
    \/ \E i \in 1..Len(call.items) : call.items[i].kind # "object"

\* C9 (as claimed): whenever the model call fails, times out or answers
\* with anything but a list of issue objects, analyzeWithLLM returns [] and
\* the scan goes on.
C9_ModelFailureGivesNoIssues ==
    /\ (lastCall.made /\ MalformedAnswer(lastCall)) => lastCall.returned = <<>>
    /\ lastCall.made => spc \in {"chunked", "llm", "done"}

\* the rule issues of chunk c for the match on file line v
RuleIssuesFor(c, v) ==
    {i \in 1..Len(allIssues) :
        /\ allIssues[i].origin = "rules"
        /\ allIssues[i].chunk = c
        /\ allIssues[i].description.num = v}

\* the chunks that hold file line v
ChunksHolding(v) == {c \in 1..Len(chunks) : v \in LinesOf(chunks[c])}

C16_RuleIssueCarriesCatalogueEntry ==
    \A i \in 1..Len(allIssues) :
        allIssues[i].origin = "rules"
        => /\ allIssues[i].cwe_id = CatalogueCwe(allIssues[i].description.text)
           /\ allIssues[i].severity = CatalogueSeverity(allIssues[i].description.text)

\* C17: every issue parsed from a model response has the path of the file
\* under scan as its file_path, whatever file_path the model wrote, the
\* generic title when the model gave none and 'medium' when it gave no
\* severity; what the model did give for title and severity is kept.
C17_ModelIssuesNormalized ==
    /\ lastCall.made
       => \A i \in 1..Len(lastCall.returned) :
             LET issue == lastCall.returned[i]
                 item == lastCall.items[i]
             IN /\ issue.file_path = src.path
                /\ issue.title = IF item.title = "" THEN "Security Issue" ELSE item.title
                /\ issue.severity = IF item.severity = "" THEN "medium" ELSE item.severity
    /\ \A i \in 1..Len(allIssues) : allIssues[i].file_path = src.path

\* C17 witness: the model named another file in an issue that carries a
\* fix, and the parsed issue is in scanFile's list under the scanned path;
\* another answer without title and severity got the defaults
C17_Witness ==
    /\ lastCall.made
    /\ Len(lastCall.returned) >= 1
    /\ lastCall.items[1].file_path = "/etc/passwd"
    /\ lastCall.items[1].fix.present
    /\ lastCall.returned[1].file_path = src.path
    /\ \E i \in 1..Len(allIssues) :
          /\ allIssues[i].origin = "model"
          /\ allIssues[i].fix.present
          /\ allIssues[i].file_path = src.path
    /\ \E i \in 1..Len(allIssues) :
          /\ allIssues[i].origin = "model"
          /\ allIssues[i].title = "Security Issue"
          /\ allIssues[i].severity = "medium"

\* the severities of the SecurityIssue type
IssueSeverities == {"low", "medium", "high", "critical"}

\* C18 (as claimed): every issue in scanFile's list, from the rules or from
\* the model, has a severity among low, medium, high and critical.
C18_SeverityInRange ==
    \A i \in 1..Len(allIssues) : allIssues[i].severity \in IssueSeverities

----------------------------------------------------------------------------
(* Summary: properties *)

RECURSIVE SumOver(_, _)
SumOver(f, keys) ==
    IF keys = {} THEN 0
    ELSE LET k == CHOOSE x \in keys : TRUE
         IN f[k].n + SumOver(f, keys \ {k})

\* C10 (as claimed): the summary's total is the length of the issue list,
\* and the per-severity values of the fold are counts that sum to it.
C10_SeverityCountsSumToTotal ==
    (summary.done /\ Len(results) > 0)
    => /\ summary.total = Len(results)
       /\ \A k \in DOMAIN summary.bySeverity : summary.bySeverity[k].isCount
       /\ SumOver(summary.bySeverity, DOMAIN summary.bySeverity) = summary.total

\* C21 (as claimed): the fold counts an issue whose severity is missing or
\* is no known severity under 'medium', so the summary has no bucket but
\* low, medium, high and critical.
C21_UnknownSeverityCountedAsMedium ==
    (summary.done /\ Len(results) > 0)
    => /\ DOMAIN summary.bySeverity \subseteq IssueSeverities
       /\ (\E i \in 1..Len(results) : results[i].severity \notin {"low", "high", "critical"})
          => /\ "medium" \in DOMAIN summary.bySeverity
             /\ summary.bySeverity["medium"]
                  = Count(Cardinality({j \in 1..Len(results) :
                                 results[j].severity \notin {"low", "high", "critical"}}))

----------------------------------------------------------------------------
(* Workspace scan: properties *)

\* a step that hands a chunk to analyzeWithRules (and to the model)
SubmitsChunk == spc = "chunked" /\ (spc' = "llm" \/ ci' = ci + 1)
\* a step that calls scanFile on the next file
StartsFile == wpc = "loop" /\ wpc' = "scanning"

\* C11 (as claimed): once cancellation has been requested, scanWorkspace
\* starts no further file and submits no further chunk to analysis, the
\* remaining chunks of the file under scan included.
C11_NoNewWorkAfterCancel ==
    [][cancelled => ~(SubmitsChunk \/ StartsFile)]_vars

\* C12 (as claimed): every workspace scan completes and returns a result.
C12_ScanAlwaysCompletes == <>(wpc = "returned")

\* C23: within one scanWorkspace at most one model call is in flight, and
\* no chunk is submitted and no file started while a model call has not
\* settled (resolved, failed or timed out).
C23_OneModelCallAtATime ==
    [][/\ inflight' <= 1
       /\ (SubmitsChunk \/ StartsFile) => inflight = 0]_vars

\* C23 witness: the model call for the second chunk of a file is in flight,
\* after the call for the first chunk has settled, in the second file
C23_Witness ==
    /\ wpc = "scanning"
    /\ wi >= 1
    /\ spc = "llm"
    /\ ci = 2
    /\ inflight = 1
    /\ lastCall.made /\ lastCall.chunk = 1

\* position of a path in the list of selected files
FileIndex(path) == CHOOSE i \in 1..Len(wfiles) : wfiles[i] = path
OriginRank(issue) == IF issue.origin = "rules" THEN 0 ELSE 1
\* issue a comes no later than issue b in (chunk, rules-then-model) order
ChunkOrdered(a, b) ==
    \/ a.chunk < b.chunk
    \/ a.chunk = b.chunk /\ OriginRank(a) <= OriginRank(b)

\* C20: scanFile's list is in chunk order with the rule issues of a chunk
\* before its model issues, and scanWorkspace's list keeps the files in the
\* order they were selected, each file's issues in scanFile's order.
C20_IssuesInScanOrder ==
    /\ \A i, j \in 1..Len(allIssues) :
          i < j => ChunkOrdered(allIssues[i], allIssues[j])
    /\ \A i, j \in 1..Len(wIssues) :
          i < j => \/ FileIndex(wIssues[i].file_path) < FileIndex(wIssues[j].file_path)
                   \/ /\ wIssues[i].file_path = wIssues[j].file_path
                      /\ ChunkOrdered(wIssues[i], wIssues[j])

\* C20 witness: a finished workspace scan whose result holds issues of two
\* files, and for one file rule and model issues of two chunks
C20_Witness ==
    /\ wpc = "returned"
    /\ \E i, j \in 1..Len(wIssues) : wIssues[i].file_path # wIssues[j].file_path
    /\ \E i, j, k \in 1..Len(wIssues) :
          /\ wIssues[i].file_path = wIssues[j].file_path
          /\ wIssues[j].file_path = wIssues[k].file_path
          /\ wIssues[i].chunk = 1 /\ wIssues[i].origin = "model"
          /\ wIssues[j].chunk = 2 /\ wIssues[j].origin = "rules"
          /\ wIssues[k].chunk = 2 /\ wIssues[k].origin = "model"

\* the files of a tree of depth three, each with the directories on its
\* path below the root
FilesOfTree(ws) ==
    LET top == ws.entries
    IN {[file |-> top[i], dirs |-> <<>>] : i \in {i \in 1..Len(top) : top[i].kind = "file"}}
       \cup UNION {
            {[file |-> top[i].entries[j], dirs |-> <<top[i]>>] :
                j \in {j \in 1..Len(top[i].entries) : top[i].entries[j].kind = "file"}}
            : i \in {i \in 1..Len(top) : top[i].kind = "dir"}}
       \cup UNION { UNION {
            {[file |-> top[i].entries[j].entries[k], dirs |-> <<top[i], top[i].entries[j]>>] :
                k \in {k \in 1..Len(top[i].entries[j].entries) :
                          top[i].entries[j].entries[k].kind = "file"}}
            : j \in {j \in 1..Len(top[i].entries) : top[i].entries[j].kind = "dir"}}
            : i \in {i \in 1..Len(top) : top[i].kind = "dir"}}

Returned(path) == \E i \in 1..Len(wfiles) : wfiles[i] = path

\* extension allowed, stat possible, size within the ceiling, no excluded
\* directory on the path
Selectable(f) ==
    /\ f.file.ext \in includeExtensions
    /\ f.file.statOk
    /\ f.file.size <= maxFileSize
    /\ \A d \in 1..Len(f.dirs) :
          f.dirs[d].name \notin {"node_modules", ".git", ".vscode", "__pycache__", ".pytest_cache"}

\* the root and every directory on the path can be listed
Listable(ws, f) == ws.readable /\ \A d \in 1..Len(f.dirs) : f.dirs[d].readable

\* C22 (as claimed): getScannableFiles returns a file iff its extension is
\* allowed, its size is within the ceiling, no directory on its path is an
\* excluded one, and it can be stat'd.
C22_ReturnedIffSelectable ==
    wpc = "loop"
    => \A f \in FilesOfTree(workspace) : Returned(f.file.path) <=> Selectable(f)

\* C22 (amended): getScannableFiles returns a file iff, besides, the root
\* and every directory on its path can be read.
C22_ReturnedIffSelectableAndListable ==
    wpc = "loop"
    => \A f \in FilesOfTree(workspace) :
          Returned(f.file.path) <=> (Selectable(f) /\ Listable(workspace, f))

\* C22 witness: an enumeration that returned the root's file at the largest
\* allowed size and left out a selectable file because a directory on its
\* path cannot be read
C22_Witness ==
    /\ wpc = "loop"
    /\ \E f \in FilesOfTree(workspace) :
          Returned(f.file.path) /\ f.file.size = maxFileSize
    /\ \E f \in FilesOfTree(workspace) :
          ~Returned(f.file.path) /\ Selectable(f) /\ ~Listable(workspace, f)

----------------------------------------------------------------------------
(* Diagnostics: properties *)

\* C13 (as claimed): after updateDiagnostics(createDiagnostics(issues)) the
\* provider's collection holds, for every file that has issues, one
\* diagnostic per issue of that file.
C13_DiagnosticsShown ==
    dpc = "updated"
    => \A i \in 1..Len(scanResults) :
          LET f == scanResults[i].file_path
          IN /\ f \in DOMAIN diagnosticCollection
             /\ Len(diagnosticCollection[f]) = Len(IssuesOfFile(scanResults, f))

\* the diagnostics the collection holds for a file (none when it has no entry)
Shown(collection, f) == IF f \in DOMAIN collection THEN collection[f] ELSE <<>>

\* C25: a single-file scan of f sets f's diagnostics to those of the scan's
\* results and leaves the diagnostics published for every other file as they
\* were.
C25_FileScanUpdatesOnlyThatFile ==
    [][\A f \in DiagFiles :
         ScanDocument(f) =>
           /\ Shown(diagnosticCollection', f) = CreateFileDiagnostics(f, scanResults')
           /\ \A g \in DiagFiles \ {f} :
                Shown(diagnosticCollection', g) = Shown(diagnosticCollection, g)]_vars

----------------------------------------------------------------------------
(* Undo: properties *)

\* the backups that createBackup made of the file itself
OwnBackupKeys(dir, filePath) == {k \in DOMAIN dir : k[1] = filePath}

\* the latest clock value at which a backup of the file itself was made
LatestOwnTime(filePath) ==
    CHOOSE t \in 0..now :
        /\ <<filePath, t>> \in DOMAIN backups
        /\ \A u \in 0..now : <<filePath, u>> \in DOMAIN backups => u <= t

\* C14 (as claimed): a successful undoLastFix(f) leaves in f the content of
\* the most recent backup made of f itself, whatever other backups the
\* directory holds.
C14_UndoRestoresOwnLatestBackup ==
    (undo.done /\ undo.success)
    => /\ OwnBackupKeys(backups, undo.path) # {}
       /\ files[undo.path].content = backups[<<undo.path, LatestOwnTime(undo.path)>>]

\* C28: with no I/O error, every applyFix that makes its backup adds one
\* backup file to those already there and every applyFix that writes its log
\* adds one fix-log record, so none of the earlier ones is overwritten and k
\* successful fixes leave k backups and k records.
C28_EveryFixAddsBackupAndLog ==
    [][/\ (pc[1] = "idle" /\ pc'[1] = "backedUp")
          => Cardinality(DOMAIN backups') = Cardinality(DOMAIN backups) + 1
       /\ (pc[1] = "backedUp" /\ pc'[1] = "logged")
          => Cardinality(DOMAIN fixLogs') = Cardinality(DOMAIN fixLogs) + 1]_vars

\* C26: with no I/O error in undoLastFix itself, the undo that follows a
\* successful applyFix returns success and puts back the content applyFix
\* read, and an undo after that undo leaves the file as it is.
C26_ApplyUndoRoundTrip ==
    [][(UndoAppliedFix /\ undo'.reason # ReasonUndoError) =>
         LET f == cur[1].issue.file_path
         IN IF undo.done /\ undo.success
            THEN files'[f] = files[f]
            ELSE undo'.success /\ files'[f].content = cur[1].content]_vars

\* both invocations have written the file, and both had read the same content
\* of the same file
BothWroteSameRead ==
    /\ \A p \in Procs : HasWritten(p)
    /\ cur[1].issue.file_path = cur[2].issue.file_path
    /\ cur[1].content = cur[2].content

\* C24: applyFix takes no lock: an idle invocation can begin whatever the
\* other invocation is doing, and when two overlapping invocations have read
\* the same content and both written, the file holds what one of them
\* computed from that content alone (the other update is lost).
C24_NoLockLostUpdate ==
    /\ \A p \in Procs : (pc[p] = "idle" /\ nfix < MaxFixes) => ENABLED ApplyFixBegin(p)
    /\ BothWroteSameRead =>
         files[cur[1].issue.file_path].content \in {cur[1].newContent, cur[2].newContent}

\* C24 witness: both invocations read the same content and returned success,
\* each replacement alone changes the file, and the file holds the second
\* one's result, which is not what the two fixes in sequence would give
C24_Witness ==
    /\ BothWroteSameRead
    /\ \A p \in Procs : pc[p] = "done" /\ result[p].success
    /\ cur[1].newContent # cur[1].content
    /\ cur[2].newContent # cur[2].content
    /\ cur[1].newContent # cur[2].newContent
    /\ files[TargetFile].content = cur[2].newContent
    /\ files[TargetFile].content #
         StringReplace(cur[1].newContent, cur[2].issue.fix.before, cur[2].issue.fix.after)
    /\ files[TargetFile].content #
         StringReplace(cur[2].newContent, cur[1].issue.fix.before, cur[1].issue.fix.after)

----------------------------------------------------------------------------
(* Model provider: properties *)

Settled(g) == g.state \in {"resolved", "rejected"}

\* C27: a generate call that started its process is settled by its first
\* event, with that event's outcome (resolved with the output for close with
\* code 0, rejected with the error output for another code, rejected for a
\* spawn error or the timer); no later event changes the promise; and every
\* call is settled in the end.
C27_GenerateSettlesOnce ==
    /\ [](gen.first # "none" =>
            /\ Settled(gen)
            /\ gen.outcome = gen.first
            /\ (gen.state = "resolved") = (gen.first = "output")
            /\ (gen.first = "output" => gen.value = gen.output)
            /\ (gen.first = "exit_nonzero" => gen.value = gen.errorOutput))
    /\ [][Settled(gen) =>
            /\ gen'.state = gen.state
            /\ gen'.outcome = gen.outcome
            /\ gen'.value = gen.value]_vars
    /\ (gen.state = "pending" ~> Settled(gen))

\* C27 witness: the process closed with code 0 after some output, the promise
\* was resolved with it, and the timer fired afterwards
C27_Witness ==
    /\ gen.state = "resolved"
    /\ gen.value = gen.output /\ gen.output > 0
    /\ gen.first = "output"
    /\ gen.timerFired /\ ~gen.killed

----------------------------------------------------------------------------
(* Web UI: properties *)

\* C29: at most one scan request is in flight; a startScan call made while
\* isScanning is true sends no request; and after every scan that was
\* started isScanning returns to false and the scan button is enabled again.
C29_OneScanRequestAtATime ==
    /\ [](web.requests <= 1)
    /\ [][((ClickScan \/ PressEnter \/ RefreshTimer) /\ web.isScanning)
             => web'.requests = web.requests]_vars
    /\ (web.isScanning ~> (~web.isScanning /\ ~web.scanBtnDisabled))

\* C29 witness: a scan request is in flight and a startScan call made
\* meanwhile, by the refresh timer of an applied fix, returned at the guard
C29_Witness ==
    /\ web.isScanning /\ web.requests = 1
    /\ web.ignored
    /\ web.status = "Fix Applied"
    /\ web.timers = 0

----------------------------------------------------------------------------
(* Scan commands: properties *)

\* C30: when the scan of a Scan Current File command fails with an error,
\* the catch block of the command shows 'Scan failed: ...' and the error is
\* not left as an unhandled rejection.
C30_ScanErrorsReported ==
    cmd.pc = "failed" => (cmd.errorShown /\ ~cmd.unhandled)

====
